---- MODULE Spec2Model ----
(***************************************************************************)
(* vtkCUDADeviceManager (src/Lib/vtkCudaDeviceManager.cxx): the bookkeeping *)
(* of which vtkCUDAObject uses which CUDA device and which stream, and the  *)
(* calls that change it.                                                    *)
(*                                                                          *)
(* Spec is the manager driven by one caller at a time: every step is one    *)
(* whole call of a member function, from entry to return.  What a call      *)
(* returns and the state it leaves are given by the ...Result operator of   *)
(* the function, evaluated in the state the call starts in; the action of   *)
(* the function installs that state.                                        *)
(* ScenarioSpec is the acquire-then-release run of one device by distinct   *)
(* callers, with stream calls interleaved.                                  *)
(* ThreadSpec is the manager called by several threads at once: a step is   *)
(* one stretch of a call between two points at which the other threads can  *)
(* see or change what the call works on.                                    *)
(* SingletonSpec is the threads' calls of Singleton().                      *)
(***************************************************************************)
EXTENDS Integers, Sequences, FiniteSets, TLC

(***************************************************************************)
(* Bounds of the model.                                                     *)
(***************************************************************************)
\* what cudaGetDeviceCount reports when it succeeds
NumDevices == 2
\* the vtkCUDAObject pointers that call the manager, 1..NumObjects in pointer order
NumObjects == 2
\* the addresses "new cudaStream_t()" can return, 1..MaxStreams in pointer order
MaxStreams == 2
\* GetDevice is not called once ObjectToDeviceMap holds this many entries
MaxEntries == 2
\* the threads of ThreadSpec and SingletonSpec; thread t calls for the vtkCUDAObject t
NumThreads == 2
\* the calls a thread makes in ThreadSpec and SingletonSpec
MaxCalls == 2

\* a null cudaStream_t* (the test "*stream == 0")
NullStream == 0
\* the value std::map::operator[] gives a key it has to insert: int()
DefaultDevice == 0
\* the "no device" result of the query functions
NoDevice == -1

Devices == 0 .. (NumDevices - 1)
\* the device arguments callers pass: every valid index, one below and one above
DeviceInputs == -1 .. NumDevices
Objects == 1 .. NumObjects
Streams == 1 .. MaxStreams
Threads == 1 .. NumThreads

\* the texts of the vtkErrorMacro calls
MsgNone == ""
MsgInvalidDevice == "Invalid device identifier."
MsgNotLocated == "Could not locate supplied caller-device pair."
MsgStreamAssigned == "Stream already assigned to particular device."
MsgUnusedStream == "Cannot synchronize unused stream."
MsgNoUnique == "No unique mapping exists."
MsgNoMapping == "No mapping exists."

VARIABLES
  ObjectToDeviceMap,  \* std::multimap<vtkCUDAObject*,int>: sequence of [obj, dev] in iteration order
  StreamToDeviceMap,  \* std::map<cudaStream_t*,int>: function from the registered handles
  StreamToObjectMap,  \* std::multimap<cudaStream_t*,vtkCUDAObject*>: sequence of [stream, obj]
  regularLock,        \* the vtkMutexLock* member: "null", "live" or "freed" (dangling)
  activeDevice,       \* the calling thread's current CUDA device (any device at the start)
  createdStreams,     \* the handles GetStream allocated, each with the device it was created on
  crashed,            \* the process died in a call through a null or dangling regularLock
  lockMisused,        \* some call so far locked through a null or dangling regularLock and went on
  shutdown,           \* the destructor: whether it ran, and what it synchronized, destroyed and reset
  scen,               \* the acquire/release scenario's progress (ScenarioSpec only)
  threads,            \* each thread's place in the call it is in, with the call's locals
  mutex,              \* the vtkMutexLock objects allocated so far: the one regularLock points
                      \* to (cur, 0: none yet) and each one's holder (0: unlocked)
  singletonManager,   \* the static vtkCUDADeviceManager*: 0 (null) or the instance it points to
  instances           \* how many times "new vtkCUDADeviceManager()" has run

modelVars == <<ObjectToDeviceMap, StreamToDeviceMap, StreamToObjectMap, regularLock,
               activeDevice, createdStreams, crashed, lockMisused, shutdown>>
vars == <<ObjectToDeviceMap, StreamToDeviceMap, StreamToObjectMap, regularLock,
          activeDevice, createdStreams, crashed, lockMisused, shutdown, scen,
          threads, mutex, singletonManager, instances>>
\* what the calls of one caller at a time leave alone
threadVars == <<threads, mutex, singletonManager, instances>>
otherVars == <<scen, threads, mutex, singletonManager, instances>>

(***************************************************************************)
(* The containers.                                                          *)
(***************************************************************************)
EmptyMap == [x \in {} |-> 0]

\* the sequence without its i-th element
RemoveAt(m, i) == SubSeq(m, 1, i - 1) \o SubSeq(m, i + 1, Len(m))

\* the sequence with e put after its k-th element
InsertAt(m, k, e) == SubSeq(m, 1, k) \o <<e>> \o SubSeq(m, k + 1, Len(m))

\* std::multimap::insert: after the last element whose key is not greater
ObjectToDeviceInsert(m, caller, device) ==
  InsertAt(m, Cardinality({i \in DOMAIN m : m[i].obj <= caller}), [obj |-> caller, dev |-> device])

StreamToObjectInsert(m, stream, caller) ==
  InsertAt(m, Cardinality({i \in DOMAIN m : m[i].stream <= stream}), [stream |-> stream, obj |-> caller])

\* std::map::insert: leaves an existing key's value alone
MapInsert(f, k, v) ==
  IF k \in DOMAIN f THEN f ELSE [x \in DOMAIN f \cup {k} |-> IF x = k THEN v ELSE f[x]]

\* std::map::operator[] used to read: a key that is missing is inserted with int()
MapSubscript(f, k) == MapInsert(f, k, DefaultDevice)

MapErase(f, k) == [x \in DOMAIN f \ {k} |-> f[x]]

\* std::multimap::count
ObjectCount(m, object) == Cardinality({i \in DOMAIN m : m[i].obj = object})
StreamCount(m, stream) == Cardinality({i \in DOMAIN m : m[i].stream = stream})

SetMax(S) == CHOOSE x \in S : \A y \in S : y <= x

\* GetNumberOfDevices: the count, or -1 when cudaGetDeviceCount fails
GetNumberOfDevices == {NumDevices, -1}

InvalidDevice(device, n) == device < 0 \/ device >= n

ScenOff == [phase |-> "off", dev |-> 0, acquired |-> {}, holders |-> {}, resets |-> 0,
            allOk |-> TRUE, early |-> FALSE]

\* the destructor has not run
Running == [phase |-> "running", before |-> EmptyMap, synchronized |-> EmptyMap,
            destroyed |-> EmptyMap, resets |-> EmptyMap, resetsLast |-> TRUE]

\* the manager as its constructor leaves it
Constructed ==
  /\ ObjectToDeviceMap = <<>>
  /\ StreamToDeviceMap = EmptyMap
  /\ StreamToObjectMap = <<>>
  /\ regularLock = "null"
  /\ activeDevice \in Devices
  /\ createdStreams = EmptyMap
  /\ crashed = FALSE
  /\ lockMisused = FALSE
  /\ shutdown = Running

\* the process has not died and the manager has not been destroyed: a call can be made
Alive == ~crashed /\ shutdown.phase = "running"

\* a thread that is in no call; active: the thread's current CUDA device
ThreadIdle(device) == [pc |-> "idle", calls |-> 0, device |-> NoDevice, stream |-> NullStream,
                       destroy |-> FALSE, stale |-> FALSE, active |-> device, manager |-> 0]

\* no thread is in a call, no lock object has been allocated, the one manager exists
OneCaller ==
  /\ threads = [t \in Threads |-> ThreadIdle(activeDevice)]
  /\ mutex = [cur |-> 0, holder |-> EmptyMap]
  /\ singletonManager = 1
  /\ instances = 1

Init == Constructed /\ scen = ScenOff /\ OneCaller

\* lockMisused after a call that locks regularLock when it has the value lock
Locking(lock) == lockMisused \/ lock # "live"

(***************************************************************************)
(* GetDevice                                                                *)
(***************************************************************************)
\* the lock after "if( ObjectToDeviceMap.empty() ) regularLock = vtkMutexLock::New()"
LockAfterGetDevice(m, lock) == IF m = <<>> THEN "live" ELSE lock

\* n: what GetNumberOfDevices returns to this call
GetDeviceResult(caller, device, n) ==
  IF InvalidDevice(device, n)
  THEN [ret |-> TRUE, msg |-> MsgInvalidDevice, odm |-> ObjectToDeviceMap, lock |-> regularLock,
        misused |-> lockMisused]
  ELSE [ret |-> FALSE, msg |-> MsgNone,
        misused |-> Locking(LockAfterGetDevice(ObjectToDeviceMap, regularLock)),
        odm |-> ObjectToDeviceInsert(ObjectToDeviceMap, caller, device),
        lock |-> LockAfterGetDevice(ObjectToDeviceMap, regularLock)]

GetDevice(caller, device, n) ==
  /\ Alive
  /\ LET r == GetDeviceResult(caller, device, n)
     IN /\ r.ret \/ Len(ObjectToDeviceMap) < MaxEntries
        /\ ObjectToDeviceMap' = r.odm
        /\ regularLock' = r.lock
        /\ lockMisused' = r.misused
  /\ UNCHANGED <<StreamToDeviceMap, StreamToObjectMap, activeDevice, createdStreams, crashed, shutdown>>

(***************************************************************************)
(* ReturnStream                                                             *)
(***************************************************************************)
\* the loop over StreamToObjectMap from entry i: the entry it stops at (0: none) and
\* StreamToDeviceMap as the operator[] reads leave it
RECURSIVE ReturnStreamFind(_, _, _, _, _, _)
ReturnStreamFind(som, sdm, i, caller, stream, device) ==
  IF i > Len(som) THEN [it |-> 0, sdm |-> sdm]
  ELSE IF som[i].stream = stream /\ som[i].obj = caller
       THEN LET touched == MapSubscript(sdm, som[i].stream)
            IN IF touched[som[i].stream] = device
               THEN [it |-> i, sdm |-> touched]
               ELSE ReturnStreamFind(som, touched, i + 1, caller, stream, device)
       ELSE ReturnStreamFind(som, sdm, i + 1, caller, stream, device)

\* ReturnStream(caller, stream, device) on the stream maps som, sdm
ReturnStreamOn(som, sdm, caller, stream, device) ==
  LET f == ReturnStreamFind(som, sdm, 1, caller, stream, device)
  IN IF f.it = 0
     THEN [ret |-> TRUE, msg |-> MsgNotLocated, som |-> som, sdm |-> f.sdm]
     ELSE LET erased == RemoveAt(som, f.it)
          IN [ret |-> FALSE, msg |-> MsgNone, som |-> erased,
              sdm |-> IF StreamCount(erased, stream) = 0 THEN MapErase(f.sdm, stream) ELSE f.sdm]

ReturnStreamResult(caller, stream, device) ==
  ReturnStreamOn(StreamToObjectMap, StreamToDeviceMap, caller, stream, device)

ReturnStream(caller, stream, device) ==
  /\ Alive
  /\ LET r == ReturnStreamResult(caller, stream, device)
     IN /\ StreamToObjectMap' = r.som
        /\ StreamToDeviceMap' = r.sdm
  /\ lockMisused' = Locking(regularLock)
  /\ UNCHANGED <<ObjectToDeviceMap, regularLock, activeDevice, createdStreams, crashed, shutdown>>

(***************************************************************************)
(* ReturnDevice                                                             *)
(***************************************************************************)
DeviceMatches(m, caller, device) == {i \in DOMAIN m : m[i].obj = caller /\ m[i].dev = device}

\* a faulty variant: emptyDevice is never cleared by the loop
EmptyDeviceNeverCleared(m, caller, device) == TRUE

\* emptyDevice after the first loop: no entry that is not the caller's pair names the device
EmptyDevice(m, caller, device) ==
  \A i \in DOMAIN m : ~(m[i].obj = caller /\ m[i].dev = device) => m[i].dev # device

\* StreamToDeviceMap after the loop that reads StreamToDeviceMap[it2->first] for every entry
RECURSIVE SubscriptAll(_, _, _)
SubscriptAll(som, sdm, i) ==
  IF i > Len(som) THEN sdm ELSE SubscriptAll(som, MapSubscript(sdm, som[i].stream), i + 1)

\* streamsToReturn after that loop: its body is empty, nothing is ever inserted
StreamsToReturn(som, sdm, caller, device) == {}

\* the stream maps after ReturnStream(caller, s, device) for each s of the set, in pointer order
RECURSIVE ReturnStreams(_, _, _, _, _)
ReturnStreams(som, sdm, todo, caller, device) ==
  IF todo = {} THEN [som |-> som, sdm |-> sdm]
  ELSE LET s == CHOOSE x \in todo : \A y \in todo : x <= y
           r == ReturnStreamOn(som, sdm, caller, s, device)
       IN ReturnStreams(r.som, r.sdm, todo \ {s}, caller, device)

\* the lock after "if( ObjectToDeviceMap.empty() ) regularLock->UnRegister(this)"
LockAfterReturnDevice(m, lock) == IF m = <<>> THEN "freed" ELSE lock

\* reset: the device cudaDeviceReset() ran on, NoDevice when it did not run
ReturnDeviceResult(caller, device) ==
  IF DeviceMatches(ObjectToDeviceMap, caller, device) = {}
  THEN [ret |-> TRUE, msg |-> MsgNotLocated, odm |-> ObjectToDeviceMap, som |-> StreamToObjectMap,
        sdm |-> StreamToDeviceMap, lock |-> regularLock, reset |-> NoDevice, active |-> activeDevice]
  ELSE LET eraseIt == SetMax(DeviceMatches(ObjectToDeviceMap, caller, device))
           emptyDevice == EmptyDevice(ObjectToDeviceMap, caller, device)
           read == SubscriptAll(StreamToObjectMap, StreamToDeviceMap, 1)
           todo == StreamsToReturn(StreamToObjectMap, read, caller, device)
           r == ReturnStreams(StreamToObjectMap, read, todo, caller, device)
           erased == RemoveAt(ObjectToDeviceMap, eraseIt)
           oldDevice == activeDevice
       IN [ret |-> FALSE, msg |-> MsgNone, odm |-> erased, som |-> r.som, sdm |-> r.sdm,
           lock |-> LockAfterReturnDevice(erased, regularLock),
           reset |-> IF emptyDevice THEN device ELSE NoDevice,
           active |-> oldDevice]

ReturnDevice(caller, device) ==
  /\ Alive
  /\ LET r == ReturnDeviceResult(caller, device)
     IN /\ ObjectToDeviceMap' = r.odm
        /\ StreamToObjectMap' = r.som
        /\ StreamToDeviceMap' = r.sdm
        /\ regularLock' = r.lock
        /\ activeDevice' = r.active
  /\ lockMisused' = Locking(regularLock)
  /\ UNCHANGED <<createdStreams, crashed, shutdown>>

(***************************************************************************)
(* GetStream                                                                *)
(***************************************************************************)
\* a faulty variant: the device test written "== device"
StreamDeviceConflictEqual(sdm, stream, device) ==
  stream # NullStream /\ stream \in DOMAIN sdm /\ sdm[stream] = device

\* "*stream && StreamToDeviceMap.count(*stream) == 1 && StreamToDeviceMap[*stream] != device"
StreamDeviceConflict(sdm, stream, device) ==
  stream # NullStream /\ stream \in DOMAIN sdm /\ sdm[stream] # device

\* a faulty variant: only the first entry of StreamToObjectMap is compared
AlreadyRegisteredFirstOnly(som, stream, caller) ==
  som # <<>> /\ som[1].stream = stream /\ som[1].obj = caller

\* found after the loop "if( it->first == *stream && it->second == caller ) found = true"
AlreadyRegistered(som, stream, caller) ==
  \E i \in DOMAIN som : som[i].stream = stream /\ som[i].obj = caller

\* what "*stream" can be after "if( *stream == 0 ) { temp = new cudaStream_t(); ... *stream = temp; }":
\* an address no earlier allocation holds (none is ever deleted), or the handle passed
StreamAfterCreate(stream) ==
  IF stream = NullStream THEN Streams \ DOMAIN createdStreams ELSE {stream}

\* temp: the address "new" returns when the call gets to allocate; out: *stream at the return
GetStreamResult(caller, stream, device, n, temp) ==
  LET same == [som |-> StreamToObjectMap, sdm |-> StreamToDeviceMap, created |-> createdStreams,
               active |-> activeDevice, out |-> stream]
  IN IF InvalidDevice(device, n)
     THEN [ret |-> TRUE, msg |-> MsgInvalidDevice, misused |-> lockMisused] @@ same
     ELSE IF StreamDeviceConflict(StreamToDeviceMap, stream, device)
     THEN [ret |-> TRUE, msg |-> MsgStreamAssigned, misused |-> Locking(regularLock)] @@ same
     ELSE IF AlreadyRegistered(StreamToObjectMap, stream, caller)
     THEN [ret |-> FALSE, msg |-> MsgNone, misused |-> Locking(regularLock)] @@ same
     ELSE [ret |-> FALSE, msg |-> MsgNone, misused |-> Locking(regularLock),
           som |-> StreamToObjectInsert(StreamToObjectMap, temp, caller),
           sdm |-> MapInsert(StreamToDeviceMap, temp, device),
           created |-> MapInsert(createdStreams, temp, device),
           active |-> device, out |-> temp]

\* the handle a caller passes is null or one an earlier GetStream gave out
GetStream(caller, stream, device, n) ==
  /\ Alive
  /\ stream \in {NullStream} \cup DOMAIN createdStreams
  /\ \E temp \in StreamAfterCreate(stream) :
       LET r == GetStreamResult(caller, stream, device, n, temp)
       IN /\ StreamToObjectMap' = r.som
          /\ StreamToDeviceMap' = r.sdm
          /\ createdStreams' = r.created
          /\ activeDevice' = r.active
          /\ lockMisused' = r.misused
  /\ UNCHANGED <<ObjectToDeviceMap, regularLock, crashed, shutdown>>

(***************************************************************************)
(* SynchronizeStream, ReserveGPU                                            *)
(***************************************************************************)
\* a faulty variant: the last cudaSetDevice( oldDevice ) is missing
SynchronizeStreamNoRestore(stream, fault) ==
  IF stream \notin DOMAIN StreamToDeviceMap
  THEN [ret |-> TRUE, msg |-> MsgUnusedStream, during |-> activeDevice, active |-> activeDevice]
  ELSE [ret |-> fault, msg |-> MsgNone, during |-> StreamToDeviceMap[stream],
        active |-> StreamToDeviceMap[stream]]

\* fault: whether cudaGetLastError() reports an error at the end of the call;
\* during: the thread's device while cudaStreamSynchronize runs, active: at the return
SynchronizeStreamResult(stream, fault) ==
  IF stream \notin DOMAIN StreamToDeviceMap
  THEN [ret |-> TRUE, msg |-> MsgUnusedStream, during |-> activeDevice, active |-> activeDevice]
  ELSE LET device == StreamToDeviceMap[stream]
           oldDevice == activeDevice
       IN [ret |-> fault, msg |-> MsgNone, during |-> device, active |-> oldDevice]

SynchronizeStream(stream, fault) ==
  /\ Alive
  /\ activeDevice' = SynchronizeStreamResult(stream, fault).active
  /\ lockMisused' = Locking(regularLock)
  /\ UNCHANGED <<ObjectToDeviceMap, StreamToDeviceMap, StreamToObjectMap, regularLock, createdStreams, crashed, shutdown>>

ReserveGPUResult(stream, fault) ==
  IF stream \notin DOMAIN StreamToDeviceMap
  THEN [ret |-> TRUE, msg |-> MsgUnusedStream, active |-> activeDevice]
  ELSE [ret |-> fault, msg |-> MsgNone, active |-> StreamToDeviceMap[stream]]

ReserveGPU(stream, fault) ==
  /\ Alive
  /\ activeDevice' = ReserveGPUResult(stream, fault).active
  /\ lockMisused' = Locking(regularLock)
  /\ UNCHANGED <<ObjectToDeviceMap, StreamToDeviceMap, StreamToObjectMap, regularLock, createdStreams, crashed, shutdown>>

(***************************************************************************)
(* QueryDeviceForObject, QueryDeviceForStream: no state is changed, ret is  *)
(* the device returned.                                                     *)
(***************************************************************************)
\* ObjectToDeviceMap.find(object)->second: the first entry of the key
FirstDeviceOf(m, object) ==
  m[CHOOSE i \in DOMAIN m : m[i].obj = object /\ \A j \in DOMAIN m : m[j].obj = object => i <= j].dev

\* a faulty variant: the test written "count(object) >= 1"
QueryDeviceForObjectAnyCount(object) ==
  IF ObjectCount(ObjectToDeviceMap, object) >= 1
  THEN [ret |-> FirstDeviceOf(ObjectToDeviceMap, object), msg |-> MsgNone]
  ELSE [ret |-> NoDevice, msg |-> MsgNoUnique]

QueryDeviceForObjectResult(object) ==
  IF ObjectCount(ObjectToDeviceMap, object) = 1
  THEN [ret |-> FirstDeviceOf(ObjectToDeviceMap, object), msg |-> MsgNone]
  ELSE [ret |-> NoDevice, msg |-> MsgNoUnique]

QueryDeviceForObject(object) ==
  /\ Alive
  /\ QueryDeviceForObjectResult(object).ret \in Devices \cup {NoDevice}
  /\ lockMisused' = Locking(regularLock)
  /\ UNCHANGED <<ObjectToDeviceMap, StreamToDeviceMap, StreamToObjectMap, regularLock,
                 activeDevice, createdStreams, crashed, shutdown>>

QueryDeviceForStreamResult(stream) ==
  IF stream \in DOMAIN StreamToDeviceMap
  THEN [ret |-> StreamToDeviceMap[stream], msg |-> MsgNone]
  ELSE [ret |-> NoDevice, msg |-> MsgNoMapping]

QueryDeviceForStream(stream) ==
  /\ Alive
  /\ QueryDeviceForStreamResult(stream).ret \in Devices \cup {NoDevice}
  /\ lockMisused' = Locking(regularLock)
  /\ UNCHANGED <<ObjectToDeviceMap, StreamToDeviceMap, StreamToObjectMap, regularLock,
                 activeDevice, createdStreams, crashed, shutdown>>

(***************************************************************************)
(* DestroyEmptyStream: SynchronizeStream (its result dropped), then the     *)
(* entry of StreamToDeviceMap is looked up and erased.                      *)
(***************************************************************************)
DestroyEmptyStreamResult(stream) ==
  LET sync == SynchronizeStreamResult(stream, FALSE)
  IN IF stream \notin DOMAIN StreamToDeviceMap
     THEN [msg |-> MsgNotLocated, sdm |-> StreamToDeviceMap, active |-> sync.active]
     ELSE [msg |-> MsgNone, sdm |-> MapErase(StreamToDeviceMap, stream), active |-> sync.active]

DestroyEmptyStream(stream) ==
  /\ Alive
  /\ LET r == DestroyEmptyStreamResult(stream)
     IN /\ StreamToDeviceMap' = r.sdm
        /\ activeDevice' = r.active
  /\ lockMisused' = Locking(regularLock)
  /\ UNCHANGED <<ObjectToDeviceMap, StreamToObjectMap, regularLock, createdStreams, crashed, shutdown>>

(***************************************************************************)
(* The destructor, from its Lock() on.  It calls SynchronizeStream for each *)
(* entry of StreamToDeviceMap while it holds regularLock, and               *)
(* SynchronizeStream locks regularLock again: whether the thread that holds *)
(* a vtkMutexLock can lock it a second time depends on the build (a default *)
(* pthread mutex blocks for ever, a Win32 mutex lets its owner in).         *)
(***************************************************************************)
\* one more under the key k of the counters f
Bump(f, k) == IF k \in DOMAIN f THEN [f EXCEPT ![k] = @ + 1] ELSE f @@ (k :> 1)

\* the loop over StreamToDeviceMap, in pointer order: each stream of todo is synchronized
\* and destroyed and its device put into devicesInUse
RECURSIVE EndStreams(_, _, _)
EndStreams(sdm, todo, acc) ==
  IF todo = {} THEN acc
  ELSE LET s == CHOOSE x \in todo : \A y \in todo : x <= y
       IN EndStreams(sdm, todo \ {s},
                     [synchronized |-> IF s \in DOMAIN sdm THEN Bump(acc.synchronized, s)
                                       ELSE acc.synchronized,
                      destroyed |-> Bump(acc.destroyed, s),
                      devicesInUse |-> acc.devicesInUse \cup {sdm[s]}])

\* the loop over devicesInUse, in ascending order: each device is made current and reset
RECURSIVE ResetDevices(_, _)
ResetDevices(todo, acc) ==
  IF todo = {} THEN acc
  ELSE LET d == CHOOSE x \in todo : \A y \in todo : x <= y
       IN ResetDevices(todo \ {d}, [resets |-> Bump(acc.resets, d), active |-> d])

\* recursive: the thread that holds regularLock can lock it again
DestructorResult(recursive) ==
  IF StreamToDeviceMap # EmptyMap /\ ~recursive
  THEN [shutdown |-> [Running EXCEPT !.phase = "hung", !.before = StreamToDeviceMap],
        odm |-> ObjectToDeviceMap, som |-> StreamToObjectMap, sdm |-> StreamToDeviceMap,
        lock |-> regularLock, active |-> activeDevice]
  ELSE LET ended == EndStreams(StreamToDeviceMap, DOMAIN StreamToDeviceMap,
                               [synchronized |-> EmptyMap, destroyed |-> EmptyMap,
                                devicesInUse |-> {}])
           done == ResetDevices(ended.devicesInUse, [resets |-> EmptyMap, active |-> activeDevice])
       IN [shutdown |-> [phase |-> "done", before |-> StreamToDeviceMap,
                         synchronized |-> ended.synchronized, destroyed |-> ended.destroyed,
                         resets |-> done.resets,
                         resetsLast |-> DOMAIN ended.destroyed = DOMAIN StreamToDeviceMap],
           odm |-> <<>>, som |-> <<>>, sdm |-> EmptyMap, lock |-> "freed", active |-> done.active]

Destructor(recursive) ==
  /\ Alive
  /\ LET r == DestructorResult(recursive)
     IN /\ shutdown' = r.shutdown
        /\ ObjectToDeviceMap' = r.odm
        /\ StreamToObjectMap' = r.som
        /\ StreamToDeviceMap' = r.sdm
        /\ regularLock' = r.lock
        /\ activeDevice' = r.active
  /\ lockMisused' = Locking(regularLock)
  /\ UNCHANGED <<createdStreams, crashed>>

(***************************************************************************)
(* A call that locks through a null or dangling regularLock (every function *)
(* but GetDevice, which locks after it has allocated): the behaviour is     *)
(* undefined; the call goes through as above, or the process dies in it.    *)
(***************************************************************************)
LockFault ==
  /\ Alive
  /\ regularLock # "live"
  /\ crashed' = TRUE
  /\ UNCHANGED <<ObjectToDeviceMap, StreamToDeviceMap, StreamToObjectMap, regularLock,
                 activeDevice, createdStreams, lockMisused, shutdown>>

Next ==
  \/ \E caller \in Objects, device \in DeviceInputs, n \in GetNumberOfDevices :
       GetDevice(caller, device, n) /\ UNCHANGED otherVars
  \/ \E caller \in Objects, device \in DeviceInputs :
       ReturnDevice(caller, device) /\ UNCHANGED otherVars
  \/ \E caller \in Objects, stream \in {NullStream} \cup Streams, device \in DeviceInputs,
        n \in GetNumberOfDevices :
       GetStream(caller, stream, device, n) /\ UNCHANGED otherVars
  \/ \E caller \in Objects, stream \in Streams, device \in DeviceInputs :
       ReturnStream(caller, stream, device) /\ UNCHANGED otherVars
  \/ \E stream \in Streams, fault \in BOOLEAN : SynchronizeStream(stream, fault) /\ UNCHANGED otherVars
  \/ \E stream \in Streams, fault \in BOOLEAN : ReserveGPU(stream, fault) /\ UNCHANGED otherVars
  \/ \E object \in Objects : QueryDeviceForObject(object) /\ UNCHANGED otherVars
  \/ \E stream \in Streams : QueryDeviceForStream(stream) /\ UNCHANGED otherVars
  \/ \E stream \in Streams : DestroyEmptyStream(stream) /\ UNCHANGED otherVars
  \/ \E recursive \in BOOLEAN : Destructor(recursive) /\ UNCHANGED otherVars
  \/ LockFault /\ UNCHANGED otherVars

Spec == Init /\ [][Next]_vars

(***************************************************************************)
(* ScenarioSpec: starting with the manager as constructed, distinct callers *)
(* each take the device scen.dev once, then give it back one by one in any  *)
(* order.  Calls on streams come in between at any time.  scen records who  *)
(* took the device, who still holds it, how many ReturnDevice calls reset   *)
(* it, whether every ReturnDevice succeeded, and whether a reset came while *)
(* another caller still held the device.                                    *)
(***************************************************************************)
ScenarioInit ==
  /\ Constructed
  /\ OneCaller
  /\ \E d \in Devices :
       scen = [phase |-> "acquire", dev |-> d, acquired |-> {}, holders |-> {}, resets |-> 0,
               allOk |-> TRUE, early |-> FALSE]

ScenAcquire(caller, n) ==
  /\ scen.phase = "acquire"
  /\ caller \notin scen.acquired
  /\ GetDevice(caller, scen.dev, n)
  /\ scen' = IF GetDeviceResult(caller, scen.dev, n).ret THEN scen
             ELSE [scen EXCEPT !.acquired = @ \cup {caller}, !.holders = @ \cup {caller}]
  /\ UNCHANGED threadVars

ScenBeginRelease ==
  /\ scen.phase = "acquire"
  /\ scen.acquired # {}
  /\ scen' = [scen EXCEPT !.phase = "release"]
  /\ UNCHANGED modelVars
  /\ UNCHANGED threadVars

ScenRelease(caller) ==
  /\ scen.phase = "release"
  /\ caller \in scen.holders
  /\ ReturnDevice(caller, scen.dev)
  /\ LET r == ReturnDeviceResult(caller, scen.dev)
     IN scen' = [scen EXCEPT !.holders = @ \ {caller},
                             !.resets = @ + (IF r.reset = scen.dev THEN 1 ELSE 0),
                             !.allOk = @ /\ ~r.ret,
                             !.early = @ \/ (r.reset # NoDevice /\ scen.holders # {caller})]
  /\ UNCHANGED threadVars

ScenarioNext ==
  \/ \E caller \in Objects, n \in GetNumberOfDevices : ScenAcquire(caller, n)
  \/ ScenBeginRelease
  \/ \E caller \in Objects : ScenRelease(caller)
  \/ \E caller \in Objects, stream \in {NullStream} \cup Streams, device \in DeviceInputs,
        n \in GetNumberOfDevices :
       GetStream(caller, stream, device, n) /\ UNCHANGED otherVars
  \/ \E caller \in Objects, stream \in Streams, device \in DeviceInputs :
       ReturnStream(caller, stream, device) /\ UNCHANGED otherVars
  \/ \E stream \in Streams, fault \in BOOLEAN : ReserveGPU(stream, fault) /\ UNCHANGED otherVars
  \/ \E stream \in Streams : DestroyEmptyStream(stream) /\ UNCHANGED otherVars
  \/ LockFault /\ UNCHANGED otherVars

ScenarioSpec == ScenarioInit /\ [][ScenarioNext]_vars

(***************************************************************************)
(* ThreadSpec: NumThreads threads call the manager at the same time, thread *)
(* t for the vtkCUDAObject t, each MaxCalls times.  A stretch of a call     *)
(* that runs from Lock() to Unlock() is one step, taken when Lock() can     *)
(* return; ReturnDevice keeps the lock over cudaDeviceReset(), which is a   *)
(* step of its own.  What a call does outside the lock is a step of its     *)
(* own: the emptiness tests of GetDevice and ReturnDevice with the          *)
(* allocation and release of the lock, the wait of SynchronizeStream, the   *)
(* cudaSetDevice of ReserveGPU and the erase of DestroyEmptyStream.         *)
(***************************************************************************)
\* Lock() through regularLock returns: the lock object is unlocked (through a null or
\* dangling pointer the call is undefined and taken to go on)
LockReturns == regularLock = "live" => mutex.holder[mutex.cur] = 0

\* thread t holds the lock object regularLock points to
Holds(t) == regularLock = "live" /\ mutex.holder[mutex.cur] = t

\* the lock objects after vtkMutexLock::New() is assigned to regularLock
MutexNew(mx) ==
  LET id == Cardinality(DOMAIN mx.holder) + 1
  IN [cur |-> id, holder |-> mx.holder @@ (id :> 0)]

\* the call thread t starts is one more of its calls
Called(t) == [threads EXCEPT ![t].calls = @ + 1]

CanCall(t) == Alive /\ threads[t].pc = "idle" /\ threads[t].calls < MaxCalls

\* the threads that are between line 84 and line 95 of GetDevice
InGetDevice == {t \in Threads : threads[t].pc \in {"GetDevice_empty", "GetDevice_lock"}}

\* GetDevice, line 84: the device index is tested
TGetDeviceValidate(t, device, n) ==
  /\ CanCall(t)
  /\ Len(ObjectToDeviceMap) + Cardinality(InGetDevice) < MaxEntries
  /\ threads' = IF InvalidDevice(device, n) THEN Called(t)
                ELSE [Called(t) EXCEPT ![t].pc = "GetDevice_empty", ![t].device = device]
  /\ UNCHANGED <<modelVars, scen, mutex, singletonManager, instances>>

\* GetDevice, lines 90-91: without the lock, ObjectToDeviceMap.empty() is tested and a new
\* lock object put in regularLock
TGetDeviceAllocate(t) ==
  /\ Alive
  /\ threads[t].pc = "GetDevice_empty"
  /\ regularLock' = LockAfterGetDevice(ObjectToDeviceMap, regularLock)
  /\ mutex' = IF ObjectToDeviceMap = <<>> THEN MutexNew(mutex) ELSE mutex
  /\ threads' = [threads EXCEPT ![t].pc = "GetDevice_lock"]
  /\ UNCHANGED <<ObjectToDeviceMap, StreamToDeviceMap, StreamToObjectMap, activeDevice,
                 createdStreams, crashed, lockMisused, shutdown, scen, singletonManager, instances>>

\* GetDevice, lines 94-97: Lock(), the insertion, Unlock()
TGetDeviceInsert(t) ==
  /\ Alive
  /\ threads[t].pc = "GetDevice_lock"
  /\ LockReturns
  /\ ObjectToDeviceMap' = ObjectToDeviceInsert(ObjectToDeviceMap, t, threads[t].device)
  /\ lockMisused' = Locking(regularLock)
  /\ threads' = [threads EXCEPT ![t].pc = "idle"]
  /\ UNCHANGED <<StreamToDeviceMap, StreamToObjectMap, regularLock, activeDevice, createdStreams,
                 crashed, shutdown, scen, mutex, singletonManager, instances>>

\* ReturnDevice, lines 101-136: Lock(), the loops and the erase; when the pair is not found
\* the call ends, when the device is to be reset the lock is kept
TReturnDeviceScan(t, device) ==
  /\ CanCall(t)
  /\ LockReturns
  /\ LET r == ReturnDeviceResult(t, device)
     IN /\ ObjectToDeviceMap' = r.odm
        /\ StreamToObjectMap' = r.som
        /\ StreamToDeviceMap' = r.sdm
        /\ threads' = IF r.ret THEN Called(t)
                      ELSE [Called(t) EXCEPT ![t].device = device,
                                             ![t].pc = IF r.reset # NoDevice THEN "ReturnDevice_reset"
                                                       ELSE "ReturnDevice_empty"]
        /\ mutex' = IF ~r.ret /\ r.reset # NoDevice /\ regularLock = "live"
                    THEN [mutex EXCEPT !.holder[mutex.cur] = t] ELSE mutex
  /\ lockMisused' = Locking(regularLock)
  /\ UNCHANGED <<regularLock, activeDevice, createdStreams, crashed, shutdown, scen,
                 singletonManager, instances>>

\* ReturnDevice, lines 138-144: cudaDeviceReset() on the call's device ends, the thread's
\* device is set back, then Unlock() through regularLock as it is now.  A thread that waits
\* on a stream of the device, or is about to make the device current, has its device reset
\* under it (stale).
TReturnDeviceReset(t) ==
  /\ Alive
  /\ threads[t].pc = "ReturnDevice_reset"
  /\ threads' = [u \in Threads |->
                   IF u = t THEN [threads[u] EXCEPT !.pc = "ReturnDevice_empty"]
                   ELSE IF /\ threads[u].pc \in {"SynchronizeStream_wait", "ReserveGPU_set"}
                           /\ threads[u].device = threads[t].device
                        THEN [threads[u] EXCEPT !.stale = TRUE]
                        ELSE threads[u]]
  /\ mutex' = IF Holds(t) THEN [mutex EXCEPT !.holder[mutex.cur] = 0] ELSE mutex
  /\ lockMisused' = (lockMisused \/ ~Holds(t))
  /\ UNCHANGED <<ObjectToDeviceMap, StreamToDeviceMap, StreamToObjectMap, regularLock,
                 activeDevice, createdStreams, crashed, shutdown, scen, singletonManager, instances>>

\* ReturnDevice, lines 147-150: without the lock, ObjectToDeviceMap.empty() is tested and
\* the lock object released
TReturnDeviceDeallocate(t) ==
  /\ Alive
  /\ threads[t].pc = "ReturnDevice_empty"
  /\ regularLock' = LockAfterReturnDevice(ObjectToDeviceMap, regularLock)
  /\ lockMisused' = (lockMisused \/ (ObjectToDeviceMap = <<>> /\ regularLock # "live"))
  /\ threads' = [threads EXCEPT ![t].pc = "idle"]
  /\ UNCHANGED <<ObjectToDeviceMap, StreamToDeviceMap, StreamToObjectMap, activeDevice,
                 createdStreams, crashed, shutdown, scen, mutex, singletonManager, instances>>

\* GetStream, the whole call: the test of the device, then Lock() to Unlock()
TGetStream(t, stream, device, n) ==
  /\ CanCall(t)
  /\ stream \in {NullStream} \cup DOMAIN createdStreams
  /\ InvalidDevice(device, n) \/ LockReturns
  /\ \E temp \in StreamAfterCreate(stream) :
       LET r == GetStreamResult(t, stream, device, n, temp)
       IN /\ StreamToObjectMap' = r.som
          /\ StreamToDeviceMap' = r.sdm
          /\ createdStreams' = r.created
          /\ lockMisused' = r.misused
          /\ threads' = [Called(t) EXCEPT ![t].active =
                           IF r.som # StreamToObjectMap THEN device ELSE @]
  /\ UNCHANGED <<ObjectToDeviceMap, regularLock, activeDevice, crashed, shutdown, scen, mutex,
                 singletonManager, instances>>

\* ReturnStream, the whole call
TReturnStream(t, stream, device) ==
  /\ CanCall(t)
  /\ LockReturns
  /\ LET r == ReturnStreamResult(t, stream, device)
     IN /\ StreamToObjectMap' = r.som
        /\ StreamToDeviceMap' = r.sdm
  /\ lockMisused' = Locking(regularLock)
  /\ threads' = Called(t)
  /\ UNCHANGED <<ObjectToDeviceMap, regularLock, activeDevice, createdStreams, crashed, shutdown,
                 scen, mutex, singletonManager, instances>>

\* where a thread goes on when SynchronizeStream returns: to the loop of
\* DestroyEmptyStream when that is the caller
AfterSynchronize(destroy) == IF destroy THEN "DestroyEmptyStream_find" ELSE "idle"

\* SynchronizeStream, lines 227-234: Lock(), the device of the stream is read, Unlock();
\* destroy: the call is the one DestroyEmptyStream makes at line 288
TSynchronizeLookup(t, stream, destroy) ==
  /\ CanCall(t)
  /\ LockReturns
  /\ threads' = IF stream \notin DOMAIN StreamToDeviceMap
                THEN [Called(t) EXCEPT ![t].pc = AfterSynchronize(destroy), ![t].stream = stream]
                ELSE [Called(t) EXCEPT ![t].pc = "SynchronizeStream_wait",
                                       ![t].stream = stream,
                                       ![t].device = StreamToDeviceMap[stream],
                                       ![t].destroy = destroy,
                                       ![t].stale = FALSE]
  /\ lockMisused' = Locking(regularLock)
  /\ UNCHANGED <<ObjectToDeviceMap, StreamToDeviceMap, StreamToObjectMap, regularLock,
                 activeDevice, createdStreams, crashed, shutdown, scen, mutex,
                 singletonManager, instances>>

\* SynchronizeStream, lines 237-242: the device read is made current, the stream waited
\* for, the thread's device set back
TSynchronizeWait(t) ==
  /\ Alive
  /\ threads[t].pc = "SynchronizeStream_wait"
  /\ threads' = [threads EXCEPT ![t].pc = AfterSynchronize(threads[t].destroy),
                                ![t].destroy = FALSE, ![t].stale = FALSE]
  /\ UNCHANGED <<modelVars, scen, mutex, singletonManager, instances>>

\* ReserveGPU, lines 249-256
TReserveLookup(t, stream) ==
  /\ CanCall(t)
  /\ LockReturns
  /\ threads' = IF stream \notin DOMAIN StreamToDeviceMap THEN Called(t)
                ELSE [Called(t) EXCEPT ![t].pc = "ReserveGPU_set",
                                       ![t].stream = stream,
                                       ![t].device = StreamToDeviceMap[stream],
                                       ![t].stale = FALSE]
  /\ lockMisused' = Locking(regularLock)
  /\ UNCHANGED <<ObjectToDeviceMap, StreamToDeviceMap, StreamToObjectMap, regularLock,
                 activeDevice, createdStreams, crashed, shutdown, scen, mutex,
                 singletonManager, instances>>

\* ReserveGPU, lines 259-260: the device read is made the thread's device
TReserveSet(t) ==
  /\ Alive
  /\ threads[t].pc = "ReserveGPU_set"
  /\ threads' = [threads EXCEPT ![t].pc = "idle", ![t].active = threads[t].device,
                                ![t].stale = FALSE]
  /\ UNCHANGED <<modelVars, scen, mutex, singletonManager, instances>>

\* DestroyEmptyStream, lines 290-303: without the lock, the entry of the stream is looked
\* for in StreamToDeviceMap and erased
TDestroyErase(t) ==
  /\ Alive
  /\ threads[t].pc = "DestroyEmptyStream_find"
  /\ StreamToDeviceMap' = DestroyEmptyStreamResult(threads[t].stream).sdm
  /\ threads' = [threads EXCEPT ![t].pc = "idle"]
  /\ UNCHANGED <<ObjectToDeviceMap, StreamToObjectMap, regularLock, activeDevice, createdStreams,
                 crashed, lockMisused, shutdown, scen, mutex, singletonManager, instances>>

\* QueryDeviceForObject and QueryDeviceForStream, the whole call: Lock(), count and find,
\* Unlock()
TQueryDevice(t) ==
  /\ CanCall(t)
  /\ LockReturns
  /\ threads' = Called(t)
  /\ lockMisused' = Locking(regularLock)
  /\ UNCHANGED <<ObjectToDeviceMap, StreamToDeviceMap, StreamToObjectMap, regularLock,
                 activeDevice, createdStreams, crashed, shutdown, scen, mutex,
                 singletonManager, instances>>

ThreadInit == Init

ThreadNext ==
  \/ \E t \in Threads, device \in Devices, n \in GetNumberOfDevices : TGetDeviceValidate(t, device, n)
  \/ \E t \in Threads : TGetDeviceAllocate(t)
  \/ \E t \in Threads : TGetDeviceInsert(t)
  \/ \E t \in Threads, device \in Devices : TReturnDeviceScan(t, device)
  \/ \E t \in Threads : TReturnDeviceReset(t)
  \/ \E t \in Threads : TReturnDeviceDeallocate(t)
  \/ \E t \in Threads, stream \in {NullStream} \cup Streams, device \in Devices,
        n \in GetNumberOfDevices : TGetStream(t, stream, device, n)
  \/ \E t \in Threads, stream \in Streams, device \in Devices : TReturnStream(t, stream, device)
  \/ \E t \in Threads, stream \in Streams, destroy \in BOOLEAN : TSynchronizeLookup(t, stream, destroy)
  \/ \E t \in Threads : TSynchronizeWait(t)
  \/ \E t \in Threads, stream \in Streams : TReserveLookup(t, stream)
  \/ \E t \in Threads : TReserveSet(t)
  \/ \E t \in Threads : TDestroyErase(t)
  \/ \E t \in Threads : TQueryDevice(t)
  \/ LockFault /\ UNCHANGED otherVars

ThreadSpec == ThreadInit /\ [][ThreadNext]_vars

(***************************************************************************)
(* SingletonSpec: the threads call Singleton(), each MaxCalls times, before *)
(* any manager exists.  The test of line 26, the construction and           *)
(* assignment of line 27 and the read of line 28 are steps of their own.    *)
(***************************************************************************)
SingletonInit ==
  /\ Constructed
  /\ scen = ScenOff
  /\ threads = [t \in Threads |-> ThreadIdle(activeDevice)]
  /\ mutex = [cur |-> 0, holder |-> EmptyMap]
  /\ singletonManager = 0
  /\ instances = 0

\* line 26: "if( !singletonManager )"
SingletonTest(t) ==
  /\ threads[t].pc = "idle"
  /\ threads[t].calls < MaxCalls
  /\ threads' = [Called(t) EXCEPT ![t].pc = IF singletonManager = 0 THEN "Singleton_new"
                                            ELSE "Singleton_return"]
  /\ UNCHANGED <<modelVars, scen, mutex, singletonManager, instances>>

\* line 27: "singletonManager = new vtkCUDADeviceManager()"
SingletonNew(t) ==
  /\ threads[t].pc = "Singleton_new"
  /\ instances' = instances + 1
  /\ singletonManager' = instances + 1
  /\ threads' = [threads EXCEPT ![t].pc = "Singleton_return"]
  /\ UNCHANGED <<modelVars, scen, mutex>>

\* line 28: "return singletonManager"
SingletonReturn(t) ==
  /\ threads[t].pc = "Singleton_return"
  /\ threads' = [threads EXCEPT ![t].pc = "idle", ![t].manager = singletonManager]
  /\ UNCHANGED <<modelVars, scen, mutex, singletonManager, instances>>

SingletonNext ==
  \/ \E t \in Threads : SingletonTest(t)
  \/ \E t \in Threads : SingletonNew(t)
  \/ \E t \in Threads : SingletonReturn(t)

SingletonSpec == SingletonInit /\ [][SingletonNext]_vars

(***************************************************************************)
(* The properties.  OwnerDevice is ObjectToDeviceMap, StreamDevice is       *)
(* StreamToDeviceMap, StreamOwner is StreamToObjectMap; AcquireDevice,      *)
(* ReleaseDevice, AcquireStream, ReleaseStream, PinActiveDevice and         *)
(* QueryDeviceForOwner are GetDevice, ReturnDevice, GetStream,              *)
(* ReturnStream, ReserveGPU and QueryDeviceForObject.                       *)
(*                                                                          *)
(* A property of what a call returns or leaves is stated of the call's      *)
(* ...Result in the state the call starts in, for every argument: every     *)
(* call that can be made in a reachable state is covered.                   *)
(***************************************************************************)
\* an entry for the device is in the OwnerDevice relation m
HoldsDevice(m, device) == \E i \in DOMAIN m : m[i].dev = device

\* the entry (stream, caller) is in the StreamOwner relation som
Registered(som, stream, caller) == \E i \in DOMAIN som : som[i] = [stream |-> stream, obj |-> caller]

\* the streams that have an entry in the StreamOwner relation som
OwnedStreams(som) == {som[i].stream : i \in DOMAIN som}

OwnerDeviceEntries(m) == {<<m[i].obj, m[i].dev>> : i \in DOMAIN m}

StreamDeviceEntries(f) == {<<x, f[x]>> : x \in DOMAIN f}

\* no call so far went through a null or dangling lock, and the next one does not either
DefinedRun == ~lockMisused /\ regularLock = "live"

\* C1: ReleaseDevice resets device D exactly when the entry it removes was the last
\* OwnerDevice entry for D (duplicates of one owner being entries of their own): a
\* successful ReleaseDevice(owner, D) resets D if and only if no entry for D is left
\* after the removal, it resets no other device, and a failed one resets nothing.
C1_ResetExactlyAtLastEntry ==
  DefinedRun =>
    \A caller \in Objects, device \in DeviceInputs :
      LET r == ReturnDeviceResult(caller, device)
      IN IF r.ret THEN r.reset = NoDevice
         ELSE /\ r.reset \in {device, NoDevice}
              /\ r.reset = device <=> ~HoldsDevice(r.odm, device)

\* C2: distinct owners each acquire device D once, starting from an empty OwnerDevice,
\* and then release it one by one in any order: every ReleaseDevice succeeds, none but
\* the final one resets D, the final one does (one reset in all), and OwnerDevice is
\* empty at the end.
C2_ReleaseByDistinctOwners ==
  scen.phase = "release" =>
    /\ scen.allOk
    /\ ~scen.early
    /\ scen.holders # {} => scen.resets = 0 /\ HoldsDevice(ObjectToDeviceMap, scen.dev)
    /\ scen.holders = {} => scen.resets = 1 /\ ObjectToDeviceMap = <<>>

\* C2's case: two owners or more acquired the device and all have released it
C2_Witness ==
  scen.phase = "release" /\ scen.holders = {} /\ Cardinality(scen.acquired) >= 2

\* C3: a successful ReleaseDevice(owner, D) retires every stream the owner holds that is
\* bound to D: no stream that StreamDevice mapped to D before the call has an entry
\* (S, owner) in StreamOwner after it, and such a stream left with no owner has no
\* StreamDevice entry.
C3_ReleaseDeviceRetiresStreams ==
  DefinedRun =>
    \A caller \in Objects, device \in DeviceInputs :
      LET r == ReturnDeviceResult(caller, device)
      IN ~r.ret =>
           \A s \in DOMAIN StreamToDeviceMap :
             StreamToDeviceMap[s] = device =>
               /\ ~Registered(r.som, s, caller)
               /\ StreamCount(r.som, s) = 0 => s \notin DOMAIN r.sdm

\* C4: an operation that returns an error leaves OwnerDevice, StreamDevice and StreamOwner
\* as they were before the call (SynchronizeStream, ReserveGPU and the two queries write
\* none of the three on any path; the others are compared with the state they start in).
C4_ErrorLeavesRelations ==
  DefinedRun =>
    /\ \A caller \in Objects, device \in DeviceInputs, n \in GetNumberOfDevices :
         LET r == GetDeviceResult(caller, device, n)
         IN r.ret => r.odm = ObjectToDeviceMap
    /\ \A caller \in Objects, device \in DeviceInputs :
         LET r == ReturnDeviceResult(caller, device)
         IN r.ret => /\ r.odm = ObjectToDeviceMap
                     /\ r.sdm = StreamToDeviceMap
                     /\ r.som = StreamToObjectMap
    /\ \A caller \in Objects, stream \in {NullStream} \cup DOMAIN createdStreams,
          device \in DeviceInputs, n \in GetNumberOfDevices :
         \A temp \in StreamAfterCreate(stream) :
           LET r == GetStreamResult(caller, stream, device, n, temp)
           IN r.ret => r.sdm = StreamToDeviceMap /\ r.som = StreamToObjectMap
    /\ \A caller \in Objects, stream \in Streams, device \in DeviceInputs :
         LET r == ReturnStreamResult(caller, stream, device)
         IN r.ret => r.sdm = StreamToDeviceMap /\ r.som = StreamToObjectMap
    /\ \A stream \in Streams :
         LET r == DestroyEmptyStreamResult(stream)
         IN r.msg # MsgNone => r.sdm = StreamToDeviceMap

\* C5: every device index in OwnerDevice and in StreamDevice lies in [0, deviceCount);
\* AcquireDevice and AcquireStream reject an index out of that range with the error
\* "Invalid device identifier." and insert nothing; and no other operation adds an entry
\* to OwnerDevice or StreamDevice.
C5_DeviceIndicesValidated ==
  DefinedRun =>
    /\ \A i \in DOMAIN ObjectToDeviceMap : ObjectToDeviceMap[i].dev \in Devices
    /\ \A s \in DOMAIN StreamToDeviceMap : StreamToDeviceMap[s] \in Devices
    /\ \A caller \in Objects, device \in DeviceInputs \ Devices, n \in GetNumberOfDevices :
         LET r == GetDeviceResult(caller, device, n)
         IN r.ret /\ r.msg = MsgInvalidDevice /\ r.odm = ObjectToDeviceMap
    /\ \A caller \in Objects, stream \in {NullStream} \cup DOMAIN createdStreams,
          device \in DeviceInputs \ Devices, n \in GetNumberOfDevices :
         \A temp \in StreamAfterCreate(stream) :
           LET r == GetStreamResult(caller, stream, device, n, temp)
           IN /\ r.ret /\ r.msg = MsgInvalidDevice
              /\ r.sdm = StreamToDeviceMap /\ r.som = StreamToObjectMap
    /\ \A caller \in Objects, device \in DeviceInputs :
         LET r == ReturnDeviceResult(caller, device)
         IN /\ OwnerDeviceEntries(r.odm) \subseteq OwnerDeviceEntries(ObjectToDeviceMap)
            /\ StreamDeviceEntries(r.sdm) \subseteq StreamDeviceEntries(StreamToDeviceMap)
    /\ \A caller \in Objects, stream \in Streams, device \in DeviceInputs :
         StreamDeviceEntries(ReturnStreamResult(caller, stream, device).sdm)
           \subseteq StreamDeviceEntries(StreamToDeviceMap)
    /\ \A stream \in Streams :
         StreamDeviceEntries(DestroyEmptyStreamResult(stream).sdm)
           \subseteq StreamDeviceEntries(StreamToDeviceMap)

\* C6: a stream handle once bound to a device in StreamDevice is never later bound to
\* another one.  A handle's first StreamDevice entry is made by the GetStream call that
\* allocates it, for the device createdStreams keeps: every later entry of the handle
\* names that device.
C6_BindingImmutable ==
  ~lockMisused =>
    \A s \in DOMAIN StreamToDeviceMap : StreamToDeviceMap[s] = createdStreams[s]

\* C7: AcquireStream with an existing handle that StreamDevice maps to device A and a
\* valid device index B # A returns the error "Stream already assigned to particular
\* device.", creates no stream and adds no StreamDevice or StreamOwner entry.
C7_RebindRejected ==
  \A caller \in Objects, stream \in DOMAIN StreamToDeviceMap, device \in Devices :
    device # StreamToDeviceMap[stream] =>
      LET r == GetStreamResult(caller, stream, device, NumDevices, stream)
      IN /\ r.ret /\ r.msg = MsgStreamAssigned
         /\ r.out = stream
         /\ r.created = createdStreams
         /\ r.sdm = StreamToDeviceMap
         /\ r.som = StreamToObjectMap

\* C7's case: with every call so far well defined, a handle some GetStream gave out is
\* bound to one device and GetStream is called with it for another valid device
C7_Witness ==
  /\ DefinedRun
  /\ \E caller \in Objects, stream \in DOMAIN StreamToDeviceMap \cap DOMAIN createdStreams,
        device \in Devices :
       /\ device # StreamToDeviceMap[stream]
       /\ ~Registered(StreamToObjectMap, stream, caller)
       /\ GetStreamResult(caller, stream, device, NumDevices, stream).msg = MsgStreamAssigned

\* C8: AcquireStream is idempotent per (stream, owner): with (S, owner) in StreamOwner,
\* AcquireStream(owner, device of S, S) succeeds, returns S and leaves StreamOwner and
\* StreamDevice as they are (GetStream writes OwnerDevice on no path); and StreamOwner
\* never holds two entries for one (stream, owner) pair.
C8_AcquireStreamIdempotent ==
  /\ \A caller \in Objects, stream \in DOMAIN StreamToDeviceMap :
       Registered(StreamToObjectMap, stream, caller) =>
         LET r == GetStreamResult(caller, stream, StreamToDeviceMap[stream], NumDevices, stream)
         IN /\ ~r.ret /\ r.msg = MsgNone
            /\ r.out = stream
            /\ r.created = createdStreams
            /\ r.sdm = StreamToDeviceMap
            /\ r.som = StreamToObjectMap
  /\ \A i, j \in DOMAIN StreamToObjectMap : StreamToObjectMap[i] = StreamToObjectMap[j] => i = j

\* C8's case: with every call so far well defined, a stream has two owners, each of
\* which can call GetStream for it again
C8_Witness ==
  /\ DefinedRun
  /\ \E stream \in DOMAIN StreamToDeviceMap :
       /\ StreamCount(StreamToObjectMap, stream) >= 2
       /\ \A caller \in Objects : Registered(StreamToObjectMap, stream, caller)

\* C9: ReleaseStream(owner, S, D) succeeds if and only if StreamOwner holds (S, owner) and
\* StreamDevice maps S to D; in every other case it fails with the error "Could not
\* locate supplied caller-device pair."
C9_ReleaseStreamIff ==
  DefinedRun =>
    \A caller \in Objects, stream \in Streams, device \in DeviceInputs :
      LET r == ReturnStreamResult(caller, stream, device)
      IN /\ ~r.ret <=> /\ Registered(StreamToObjectMap, stream, caller)
                       /\ stream \in DOMAIN StreamToDeviceMap
                       /\ StreamToDeviceMap[stream] = device
         /\ r.ret => r.msg = MsgNotLocated

\* C10: the streams that have a StreamDevice entry are the streams that have at least one
\* StreamOwner entry.  (Stated of every state the calls reach: the relations start empty,
\* and a call that fails either writes nothing or adds the StreamDevice entry an owned
\* stream lacks, so the first state in which the two sets differ is left by a successful
\* call.)
C10_BoundIffOwned ==
  ~lockMisused => DOMAIN StreamToDeviceMap = OwnedStreams(StreamToObjectMap)
\* C11: a stream the manager created is destroyed exactly when its last StreamOwner entry
\* goes, together with its StreamDevice entry: in every state, every stream that was
\* created and has not been destroyed has a StreamDevice entry.
C11_LiveStreamsAreBound ==
  ~lockMisused =>
    \A s \in DOMAIN createdStreams :
      s \notin DOMAIN shutdown.destroyed => s \in DOMAIN StreamToDeviceMap

\* C14: shutdown, started in any reachable state, terminates; at its end every stream that
\* had a StreamDevice entry has been synchronized once and destroyed once, nothing else was
\* destroyed, every device such a stream was bound to has been reset once, after the
\* streams were destroyed, no other device was reset, and the three relations are empty.
C14_ShutdownCompletes ==
  (~lockMisused /\ shutdown.phase # "running") =>
    /\ shutdown.phase = "done"
    /\ shutdown.synchronized = [s \in DOMAIN shutdown.before |-> 1]
    /\ shutdown.destroyed = [s \in DOMAIN shutdown.before |-> 1]
    /\ shutdown.resets = [d \in {shutdown.before[s] : s \in DOMAIN shutdown.before} |-> 1]
    /\ shutdown.resetsLast
    /\ ObjectToDeviceMap = <<>> /\ StreamToDeviceMap = EmptyMap /\ StreamToObjectMap = <<>>

\* C12: QueryDeviceForOwner(owner) returns the device D if and only if OwnerDevice has
\* exactly one entry for the owner, the entry (owner, D); with no entry or with two or more
\* (two for one device too) it returns the "no device" value with the error "No unique
\* mapping exists."  (QueryDeviceForObject writes none of the relations on any path.)
C12_QueryDeviceForOwner ==
  \A object \in Objects :
    LET r == QueryDeviceForObjectResult(object)
        mine == {i \in DOMAIN ObjectToDeviceMap : ObjectToDeviceMap[i].obj = object}
    IN IF Cardinality(mine) = 1
       THEN r.msg = MsgNone /\ \A i \in mine : r.ret = ObjectToDeviceMap[i].dev
       ELSE r.ret = NoDevice /\ r.msg = MsgNoUnique

\* C12's case: with every call so far well defined, one owner has exactly one entry and
\* is told its device, and another owner has none
C12_Witness ==
  /\ DefinedRun
  /\ \E object \in Objects :
       /\ ObjectCount(ObjectToDeviceMap, object) = 1
       /\ QueryDeviceForObjectResult(object).ret \in Devices
  /\ \E object \in Objects : ObjectCount(ObjectToDeviceMap, object) = 0

\* C13: SynchronizeStream(S) on a stream bound to device D makes D the thread's device for
\* the wait and puts the thread's device back: the active device at the return is the
\* active device at the call, whatever it was and whatever D is.
C13_SynchronizeRestoresDevice ==
  \A stream \in DOMAIN StreamToDeviceMap, fault \in BOOLEAN :
    LET r == SynchronizeStreamResult(stream, fault)
    IN /\ r.msg = MsgNone
       /\ r.during = StreamToDeviceMap[stream]
       /\ r.active = activeDevice

\* C13's case: with every call so far well defined, a stream is bound to a device that is
\* not the thread's active device, so that SynchronizeStream has to switch and switch back
C13_Witness ==
  /\ DefinedRun
  /\ \E stream \in DOMAIN StreamToDeviceMap : StreamToDeviceMap[stream] # activeDevice

\* C17: the lock is allocated once and never deallocated or replaced while the manager
\* lives: no call takes the lock when it is not an allocated, live lock object (the calls
\* made before any GetDevice and after every device was returned too), and the lock is
\* never released.
C17_LockLiveWhenTaken ==
  shutdown.phase = "running" => ~lockMisused /\ regularLock # "freed"

\* C19: ReleaseDevice never resets a device while a stream bound to it is registered: when
\* ReturnDevice resets device D, StreamDevice (as the call has left it by then) maps no
\* stream to D.
C19_NoResetUnderStreams ==
  DefinedRun =>
    \A caller \in Objects, device \in DeviceInputs :
      LET r == ReturnDeviceResult(caller, device)
      IN r.reset # NoDevice => \A s \in DOMAIN r.sdm : r.sdm[s] # r.reset

\* thread t is between a Lock() and the Unlock() that follows it
InSection(t) == threads[t].pc = "ReturnDevice_reset"

\* C15: with several threads calling, every read and every write of OwnerDevice,
\* StreamDevice and StreamOwner is made by a thread that holds the one lock, the emptiness
\* tests of GetDevice and ReturnDevice and the erase of DestroyEmptyStream too (the
\* insertion of GetDevice is made under the lock the call takes first), and no two threads
\* are inside a locked section at once.
C15_AllAccessUnderTheLock ==
  ~lockMisused =>
    /\ \A t \in Threads :
         threads[t].pc \in {"GetDevice_empty", "ReturnDevice_empty", "DestroyEmptyStream_find"}
           => Holds(t)
    /\ \A t \in Threads : InSection(t) => Holds(t)
    /\ \A t, u \in Threads : InSection(t) /\ InSection(u) => t = u

\* C16: from the moment ReturnDevice on one thread has found that it removed the last
\* entry of device D until the reset of D ends, no GetDevice of another thread inserts an
\* entry for D: while D is being reset OwnerDevice has no entry for D.
C16_NoAcquireDuringReset ==
  ~lockMisused =>
    \A t \in Threads :
      threads[t].pc = "ReturnDevice_reset" => ~HoldsDevice(ObjectToDeviceMap, threads[t].device)

\* C18: however the threads' calls of Singleton() interleave, the first calls made at the
\* same time too, at most one manager is ever created and every call returns that one.
C18_OneSingleton ==
  /\ instances <= 1
  /\ \A t, u \in Threads :
       (threads[t].manager # 0 /\ threads[u].manager # 0) => threads[t].manager = threads[u].manager

\* C20: when SynchronizeStream(S) starts the wait on S, or ReserveGPU(S) makes the device
\* current, with the device D it read under the lock, StreamDevice still maps S to D and D
\* has not been reset since the read.
C20_BindingCurrentAtUse ==
  ~lockMisused =>
    \A t \in Threads :
      threads[t].pc \in {"SynchronizeStream_wait", "ReserveGPU_set"} =>
        /\ threads[t].stream \in DOMAIN StreamToDeviceMap
        /\ StreamToDeviceMap[threads[t].stream] = threads[t].device
        /\ ~threads[t].stale
====
